---- MODULE Spec2Model ----
(***************************************************************************)
(* Model of src/src/shmem.rs: the single-slot mailbox MSG_CHANNEL, the     *)
(* eight-mailbox SHARED_MEM, the AppChannel operations built on one        *)
(* transaction each, and the two backends MemoryAppChannel and             *)
(* MmapAppChannel.                                                         *)
(***************************************************************************)
EXTENDS Integers, Sequences, FiniteSets, TLC

\* ------------------------------------------------------------------------
\* Bounds
\* ------------------------------------------------------------------------
\* Size of one mailbox in bytes (1024 in the source, scaled down).
MSG_CHANNEL_SIZE == 6
\* Longest payload handed to a MSG_CHANNEL method.
MaxLen == 5
\* Number of AppChannel calls in one sequential run.
MaxCalls == 3
\* Number of threads sharing one transport instance.
NumThreads == 2
\* Number of AppChannel calls the threads make in one concurrent run.
MaxThreadCalls == 3
\* Number of calls each of the two processes makes in one run.
MaxIpcCalls == 2
\* Number of MmapAppChannel::new calls on one path in one run.
MaxAttach == 3
\* Number of calls through the instances over one file in one run.
MaxFileOps == 2

S == MSG_CHANNEL_SIZE

\* Byte values (u8) payloads are built from: NUL and a byte whose c_char
\* value is negative.
Bytes == {0, 200}

RECURSIVE SeqsUpTo(_, _)
SeqsUpTo(A, n) ==
  IF n = 0 THEN {<<>>}
  ELSE LET shorter == SeqsUpTo(A, n - 1)
       IN shorter \cup {Append(s, a) : s \in {t \in shorter : Len(t) = n - 1}, a \in A}

\* Payloads handed to the MSG_CHANNEL methods.
Payloads == SeqsUpTo(Bytes, MaxLen)

Min(a, b) == IF a < b THEN a ELSE b

\* ------------------------------------------------------------------------
\* Values
\* ------------------------------------------------------------------------
None == <<"None">>
Some(v) == <<"Some", v>>
Ready == <<"Ready">>
NotReady(m) == <<"NotReady", m>>
Unit == <<"Unit">>
Bool(b) == IF b THEN <<"true">> ELSE <<"false">>

\* `*e as c_char`: u8 reinterpreted as a signed byte.
CCharOf(e) == IF e >= 128 THEN e - 256 ELSE e
\* CStr::to_bytes: c_char reinterpreted as u8.
U8Of(c) == IF c < 0 THEN c + 256 ELSE c

\* ------------------------------------------------------------------------
\* MSG_CHANNEL: buf is a function 0..S-1 -> c_char
\* ------------------------------------------------------------------------
DefaultChannel == [i \in 0..(S - 1) |-> 0]

is_empty(buf) == buf[0] = 0

clear(buf) == [buf EXCEPT ![0] = 0]

\* CStr::from_ptr(v).to_bytes(): the bytes before the first NUL of v.
CStrBytes(v) ==
  LET n == CHOOSE k \in DOMAIN v : v[k] = 0 /\ \A j \in 0..(k - 1) : v[j] # 0
  IN [i \in 1..n |-> U8Of(v[i - 1])]

\* peek that cuts the copied bytes one index early.
peek_short(buf) ==
  IF is_empty(buf) THEN None
  ELSE LET v0 == [i \in 0..(S - 4) |-> buf[i + 1]]
           v == [v0 EXCEPT ![S - 5] = 0]
       IN Some(CStrBytes(v))

peek(buf) ==
  IF is_empty(buf) THEN None
  ELSE LET v0 == [i \in 0..(S - 4) |-> buf[i + 1]]
           v == [v0 EXCEPT ![S - 4] = 0]
       IN Some(CStrBytes(v))

\* pop that forgets to clear.
pop_keeps(buf) == [ret |-> peek(buf), buf |-> buf]

pop(buf) == [ret |-> peek(buf), buf |-> clear(buf)]

\* The loop of force_push, from iteration i (0-based) on.
RECURSIVE force_push_loop(_, _, _)
force_push_loop(buf, v, i) ==
  IF i >= Min(Len(v), S - 2) THEN buf
  ELSE LET c == CCharOf(v[i + 1])
           b == [buf EXCEPT ![i + 1] = c]
       IN IF c = 0 THEN b ELSE force_push_loop(b, v, i + 1)

\* force_push whose copy runs one index further and which does not store
\* the guard byte.
force_push_unguarded(buf, msg) ==
  [i \in 0..(S - 1) |->
     IF i = 0 THEN 1
     ELSE IF i <= Min(Len(msg), S - 1) THEN CCharOf(msg[i])
     ELSE buf[i]]

force_push(buf, msg) ==
  LET b1 == [buf EXCEPT ![0] = 1]
      b2 == force_push_loop(b1, msg, 0)
  IN [b2 EXCEPT ![S - 1] = 0]

\* push that writes over an occupied mailbox.
push_overwrites(buf, msg) ==
  IF ~is_empty(buf) THEN [ret |-> NotReady(msg), buf |-> force_push(buf, msg)]
  ELSE [ret |-> Ready, buf |-> force_push(buf, msg)]

push(buf, msg) ==
  IF ~is_empty(buf) THEN [ret |-> NotReady(msg), buf |-> buf]
  ELSE [ret |-> Ready, buf |-> force_push(buf, msg)]

\* ------------------------------------------------------------------------
\* SHARED_MEM: eight MSG_CHANNELs, addressed by MsgChannel
\* ------------------------------------------------------------------------
\* The fields of SHARED_MEM in declaration (layout) order.
MsgChannel ==
  << "ProcessControlRequest", "ProcessControlReply", "GraphicsRequest",
     "GraphicsReply", "Heartbeat", "AppStatus", "TrickleUp", "TrickleDown" >>

Channels == {MsgChannel[k] : k \in 1..Len(MsgChannel)}

\* ControlMsgChannel::enum_iter() and StatusMsgChannel::enum_iter(): the
\* two ordered groups scanned by the multiplexed pulls.
ControlMsgChannel ==
  << "ProcessControlRequest", "GraphicsRequest", "Heartbeat", "TrickleDown" >>

StatusMsgChannel ==
  << "ProcessControlReply", "GraphicsReply", "AppStatus", "TrickleUp" >>

DefaultSharedMem == [c \in Channels |-> DefaultChannel]

get_channel(data, m) == data[m]

\* A store that lands in every mailbox of the region.
get_channel_mut_all(data, m, buf) == [c \in Channels |-> buf]

get_channel_mut(data, m, buf) == [data EXCEPT ![m] = buf]

\* Payloads carried by the messages of the transport runs.
TransportPayloads == {<<65>>, <<200, 65>>}

\* A Message and its conversion into (channel, bytes).
Messages == [channel : Channels, payload : TransportPayloads]

MessageInto(m) == <<m.channel, m.payload>>

\* AsyncSink::map
sink_map(r, x) == IF r = Ready THEN Ready ELSE NotReady(x)

\* ------------------------------------------------------------------------
\* AppChannel: the closure each method runs inside its one transaction,
\* with the value the method returns (the first value received on rx).
\* ------------------------------------------------------------------------
app_is_empty(data, c) ==
  [ret |-> Bool(is_empty(get_channel(data, c))), data |-> data]

\* peek that consumes what it returns.
app_peek_consumes(data, c) ==
  LET r == pop(get_channel(data, c))
  IN [ret |-> r.ret, data |-> get_channel_mut(data, c, r.buf)]

app_peek(data, c) ==
  [ret |-> peek(get_channel(data, c)), data |-> data]

receive(data, c) ==
  LET r == pop(get_channel(data, c))
  IN [ret |-> r.ret, data |-> get_channel_mut(data, c, r.buf)]

\* A pull that keeps scanning (and popping) after the first hit.
RECURSIVE pull_loop_nobreak(_, _, _)
pull_loop_nobreak(data, ids, k) ==
  IF k > Len(ids) THEN [sent |-> <<>>, data |-> data]
  ELSE LET id == ids[k]
           r == pop(get_channel(data, id))
           d == get_channel_mut(data, id, r.buf)
           rest == pull_loop_nobreak(d, ids, k + 1)
       IN IF r.ret # None
          THEN [sent |-> <<Some(<<id, r.ret[2]>>)>> \o rest.sent, data |-> rest.data]
          ELSE rest

\* The scan of pull_control / pull_status from position k of the group on:
\* the values sent on tx inside the loop, and the region afterwards.
RECURSIVE pull_loop(_, _, _)
pull_loop(data, ids, k) ==
  IF k > Len(ids) THEN [sent |-> <<>>, data |-> data]
  ELSE LET id == ids[k]
           r == pop(get_channel(data, id))
           d == get_channel_mut(data, id, r.buf)
       IN IF r.ret # None
          THEN [sent |-> <<Some(<<id, r.ret[2]>>)>>, data |-> d]
          ELSE pull_loop(d, ids, k + 1)

\* The loop, the trailing tx.send(None), and rx.recv() taking the first value.
pull(data, ids) ==
  LET r == pull_loop(data, ids, 1)
      sent == Append(r.sent, None)
  IN [ret |-> Head(sent), data |-> r.data]

pull_control(data) == pull(data, ControlMsgChannel)

pull_status(data) == pull(data, StatusMsgChannel)

app_clear(data, c) ==
  [ret |-> Unit, data |-> get_channel_mut(data, c, clear(get_channel(data, c)))]

\* push that routes through force_push.
app_push_forces(data, m) ==
  LET cv == MessageInto(m)
  IN [ret |-> Ready,
      data |-> get_channel_mut(data, cv[1], force_push(get_channel(data, cv[1]), cv[2]))]

app_push(data, m) ==
  LET cv == MessageInto(m)
      r == push(get_channel(data, cv[1]), cv[2])
  IN [ret |-> sink_map(r.ret, m), data |-> get_channel_mut(data, cv[1], r.buf)]

push_unchecked(data, c, v) ==
  LET r == push(get_channel(data, c), v)
  IN [ret |-> IF r.ret = Ready THEN Ready ELSE NotReady(<<c, r.ret[2]>>),
      data |-> get_channel_mut(data, c, r.buf)]

force(data, m) ==
  LET cv == MessageInto(m)
  IN [ret |-> Unit,
      data |-> get_channel_mut(data, cv[1], force_push(get_channel(data, cv[1]), cv[2]))]

force_unchecked(data, c, v) ==
  [ret |-> Unit,
   data |-> get_channel_mut(data, c, force_push(get_channel(data, c), v))]

\* ------------------------------------------------------------------------
\* MmapAppChannel: the backing file is a sequence of bytes; the mapping of
\* its first size_of::<SHARED_MEM>() bytes is read and written as a
\* SHARED_MEM (MAP_SHARED: the mapped bytes are the file's bytes).
\* ------------------------------------------------------------------------
SizeOfSharedMem == Len(MsgChannel) * S

\* Byte offset of each mailbox in the #[repr(C)] struct.
OffsetOf ==
  [c \in Channels |-> ((CHOOSE k \in 1..Len(MsgChannel) : MsgChannel[k] = c) - 1) * S]

\* `&mut **p`: the mapped bytes seen as a SHARED_MEM.
MappedView(f) ==
  [c \in Channels |-> [i \in 0..(S - 1) |-> f[OffsetOf[c] + i + 1]]]

\* A path with no file behind it: create(true) makes an empty file.
NoFile == <<>>

\* The mailbox that holds byte k (1-based) of the region.
ChannelAt(k) == MsgChannel[((k - 1) \div S) + 1]

\* A store through `&mut **p`: the mapped bytes after the region was changed
\* to data; bytes of the file beyond the mapping stay.
MappedStore(f, data) ==
  [k \in 1..Len(f) |->
     IF k <= SizeOfSharedMem THEN data[ChannelAt(k)][(k - 1) % S] ELSE f[k]]

\* A size test that always asks for the zero-fill.
NeedsFill_always(size) == TRUE

\* md.st_size() < sz
NeedsFill(size) == size < SizeOfSharedMem

\* A write_all on a file opened in append mode.
ZeroFill_append(f) == f \o [k \in 1..SizeOfSharedMem |-> 0]

\* f.write_all(&vec![0; sz]) on the freshly opened handle: sz zero bytes
\* from offset 0, over what is there and extending the file.
ZeroFill(f) ==
  [k \in 1..(IF Len(f) > SizeOfSharedMem THEN Len(f) ELSE SizeOfSharedMem) |->
     IF k <= SizeOfSharedMem THEN 0 ELSE f[k]]

\* MmapAppChannel::new that fills the new file with ones.
MmapNew_ones(f) ==
  IF Len(f) < SizeOfSharedMem
  THEN [k \in 1..SizeOfSharedMem |-> 1]
  ELSE f

\* MmapAppChannel::new: the file after construction (write_all at offset 0
\* of size_of::<SHARED_MEM>() zero bytes when the file is shorter than that).
MmapNew(f) == IF NeedsFill(Len(f)) THEN ZeroFill(f) ELSE f

\* ------------------------------------------------------------------------
\* State
\* ------------------------------------------------------------------------
VARIABLES
  mb,       \* one MSG_CHANNEL driven through its own methods
  mbLast,   \* the last method called on mb, its argument and what it returned
  memory,   \* MemoryAppChannel.data
  mapped,   \* the mapping behind MmapAppChannel.data, seen as a SHARED_MEM
  last,     \* the last AppChannel call and what each backend returned
  ncalls,   \* number of AppChannel calls made
  shm,      \* the Shared Region behind one instance used by several threads
  lock,     \* that instance's Mutex: 0 when free, else the thread holding it
  th,       \* per thread: position in its call, the call, and its locals
  tcalls,   \* number of calls the threads have started
  ipc,      \* one mailbox of the file mapped by two processes
  wr,       \* the process that only pushes: position, payload, loop index
  rd,       \* the process that only receives: position, copied bytes, result
  accepted, \* payloads of the pushes that found the mailbox empty, in order
  delivered, \* payloads the receives returned, in order
  inst,     \* the MmapAppChannel the threads share: alive or in Drop, its
            \* mapping, and how often munmap ran
  file,     \* the bytes of the file at the path of the mapped backend
  att,      \* per process: how far MmapAppChannel::new got, the result of
            \* its size test, the instance's number, its last call
  stored,   \* per mailbox: the message an accepted push left there, as peek
            \* showed it then, and the number of the instance that pushed
  clean,    \* the file was zero-filled and nothing was written since
  nnew,     \* calls of MmapAppChannel::new so far
  fops      \* calls through the instances over the file so far

mbVars == <<mb, mbLast>>
seqVars == <<memory, mapped, last, ncalls>>
thrVars == <<shm, lock, th, tcalls>>
ipcVars == <<ipc, wr, rd, accepted, delivered>>
lifeVars == <<inst>>
fileVars == <<file, att, stored, clean, nnew, fops>>
vars ==
  <<mb, mbLast, memory, mapped, last, ncalls, shm, lock, th, tcalls,
    ipc, wr, rd, accepted, delivered, inst,
    file, att, stored, clean, nnew, fops>>

notMb == <<seqVars, thrVars, ipcVars, lifeVars, fileVars>>
notSeq == <<mbVars, thrVars, ipcVars, lifeVars, fileVars>>
notThr == <<mbVars, seqVars, ipcVars, lifeVars, fileVars>>
notIpc == <<mbVars, seqVars, thrVars, lifeVars, fileVars>>
notThrLife == <<mbVars, seqVars, ipcVars, fileVars>>
notFile == <<mbVars, seqVars, thrVars, ipcVars, lifeVars>>

NoCall == [op |-> "none", arg |-> <<>>, ret |-> Unit]

NoAppCall == [op |-> "none", arg |-> <<>>, ret |-> Unit, mret |-> Unit]

\* ------------------------------------------------------------------------
\* One MSG_CHANNEL, driven by its methods
\* ------------------------------------------------------------------------
MbInit ==
  /\ mb = DefaultChannel
  /\ mbLast = NoCall

\* A default MemoryAppChannel and an MmapAppChannel over a nonexistent path.
SeqInit ==
  /\ memory = DefaultSharedMem
  /\ mapped = MappedView(MmapNew(NoFile))
  /\ last = NoAppCall
  /\ ncalls = 0

Threads == 1..NumThreads

IdleThread ==
  [pc |-> "idle", call |-> NoCall, scan |-> 0, tmp |-> None, sent |-> <<>>,
   snap |-> DefaultSharedMem]

\* One default instance, its lock free, no thread inside a call.
ThrInit ==
  /\ shm = DefaultSharedMem
  /\ lock = 0
  /\ th = [t \in Threads |-> IdleThread]
  /\ tcalls = 0

\* The instance is constructed: its region is mapped and Drop has not run.
LifeInit == inst = [pc |-> "live", region |-> "mapped", unmaps |-> 0]

\* The processes that attach to the path of the mapped backend.
AttachProcs == {1, 2}

\* Mailboxes addressed in these runs: the first and the last of the layout.
FileChannels == {"ProcessControlRequest", "TrickleDown"}

\* A file shorter than the region, with bytes in it.
ShortFile == <<7, 7, 7>>

\* A file of the region's size left by an earlier run, a message pending
\* in its last mailbox.
UsedFile ==
  MappedStore(ZeroFill(NoFile),
              push_unchecked(DefaultSharedMem, "TrickleDown", <<65>>).data)

\* Such a file with two more bytes behind the region.
LongFile == UsedFile \o <<7, 7>>

NoStored == [msg |-> None, gen |-> 0]

NoFileCall == [op |-> "none", arg |-> <<>>, ret |-> Unit, from |-> 0]

NoInstance == [pc |-> "none", small |-> FALSE, gen |-> 0, last |-> NoFileCall]

\* What the file at path holds for each mailbox when it is at least the
\* region's size.
StoredIn(f) ==
  [c \in Channels |->
     IF Len(f) >= SizeOfSharedMem /\ ~is_empty(MappedView(f)[c])
     THEN [msg |-> peek(MappedView(f)[c]), gen |-> 0]
     ELSE NoStored]

\* The path holds f and no process has opened it.
FileStartsAs(f) ==
  /\ file = f
  /\ att = [p \in AttachProcs |-> NoInstance]
  /\ stored = StoredIn(f)
  /\ clean = FALSE
  /\ nnew = 0
  /\ fops = 0

FileInit == FileStartsAs(NoFile)

IdleWriter == [pc |-> "idle", msg |-> <<>>, i |-> 0, locked |-> FALSE, calls |-> 0]

IdleReader ==
  [pc |-> "idle", v |-> <<>>, i |-> 0, out |-> None, locked |-> FALSE, calls |-> 0]

\* A freshly created file mapped by both processes, no call in progress.
IpcInit ==
  /\ ipc = DefaultChannel
  /\ wr = IdleWriter
  /\ rd = IdleReader
  /\ accepted = <<>>
  /\ delivered = <<>>

MbIsEmpty ==
  /\ mbLast' = [op |-> "is_empty", arg |-> <<>>, ret |-> Bool(is_empty(mb))]
  /\ mb' = mb
  /\ UNCHANGED notMb

MbPeek ==
  /\ mbLast' = [op |-> "peek", arg |-> <<>>, ret |-> peek(mb)]
  /\ mb' = mb
  /\ UNCHANGED notMb

MbClear ==
  /\ mbLast' = [op |-> "clear", arg |-> <<>>, ret |-> Unit]
  /\ mb' = clear(mb)
  /\ UNCHANGED notMb

MbPop ==
  /\ mbLast' = [op |-> "pop", arg |-> <<>>, ret |-> pop(mb).ret]
  /\ mb' = pop(mb).buf
  /\ UNCHANGED notMb

MbForcePush ==
  \E p \in Payloads :
    /\ mbLast' = [op |-> "force_push", arg |-> p, ret |-> Unit]
    /\ mb' = force_push(mb, p)
    /\ UNCHANGED notMb

MbPush ==
  \E p \in Payloads :
    /\ mbLast' = [op |-> "push", arg |-> p, ret |-> push(mb, p).ret]
    /\ mb' = push(mb, p).buf
    /\ UNCHANGED notMb

NextMailbox ==
  \/ MbIsEmpty
  \/ MbPeek
  \/ MbClear
  \/ MbPop
  \/ MbForcePush
  \/ MbPush

InitMailbox == MbInit /\ SeqInit /\ ThrInit /\ IpcInit /\ LifeInit /\ FileInit

SpecMailbox == InitMailbox /\ [][NextMailbox]_vars

\* ------------------------------------------------------------------------
\* Sequential calls on the two backends, the same call on both
\* ------------------------------------------------------------------------
\* MemoryAppChannel::transaction and MmapAppChannel::transaction running
\* the same closure; r1 and r2 are its outcomes on the two regions.
Transact(op, arg, r1, r2) ==
  /\ ncalls < MaxCalls
  /\ ncalls' = ncalls + 1
  /\ memory' = r1.data
  /\ mapped' = r2.data
  /\ last' = [op |-> op, arg |-> arg, ret |-> r1.ret, mret |-> r2.ret]
  /\ UNCHANGED notSeq

CallIsEmpty ==
  \E c \in Channels :
    Transact("is_empty", <<c>>, app_is_empty(memory, c), app_is_empty(mapped, c))

CallPeek ==
  \E c \in Channels :
    Transact("peek", <<c>>, app_peek(memory, c), app_peek(mapped, c))

CallReceive ==
  \E c \in Channels :
    Transact("receive", <<c>>, receive(memory, c), receive(mapped, c))

CallPullControl ==
  Transact("pull_control", <<>>, pull_control(memory), pull_control(mapped))

CallPullStatus ==
  Transact("pull_status", <<>>, pull_status(memory), pull_status(mapped))

CallClear ==
  \E c \in Channels :
    Transact("clear", <<c>>, app_clear(memory, c), app_clear(mapped, c))

CallPush ==
  \E m \in Messages :
    Transact("push", <<m>>, app_push(memory, m), app_push(mapped, m))

CallPushUnchecked ==
  \E c \in Channels, v \in TransportPayloads :
    Transact("push_unchecked", <<c, v>>,
             push_unchecked(memory, c, v), push_unchecked(mapped, c, v))

CallForce ==
  \E m \in Messages :
    Transact("force", <<m>>, force(memory, m), force(mapped, m))

CallForceUnchecked ==
  \E c \in Channels, v \in TransportPayloads :
    Transact("force_unchecked", <<c, v>>,
             force_unchecked(memory, c, v), force_unchecked(mapped, c, v))

Next ==
  \/ CallIsEmpty
  \/ CallPeek
  \/ CallReceive
  \/ CallPullControl
  \/ CallPullStatus
  \/ CallClear
  \/ CallPush
  \/ CallPushUnchecked
  \/ CallForce
  \/ CallForceUnchecked

Init == MbInit /\ SeqInit /\ ThrInit /\ IpcInit /\ LifeInit /\ FileInit

Spec == Init /\ [][Next]_vars

\* ------------------------------------------------------------------------
\* Several threads calling one instance.  A call blocks in Mutex::lock,
\* runs its closure step by step while holding the guard, drops the guard
\* and returns the first value received on rx.  The call's arguments are
\* local to the thread until its closure runs, so they are drawn when the
\* lock is acquired.
\* ------------------------------------------------------------------------
\* The calls a thread can make.
ThreadCalls ==
  {[op |-> o, arg |-> <<c>>, ret |-> Unit] :
     o \in {"is_empty", "peek", "receive", "clear"}, c \in Channels}
  \cup {[op |-> o, arg |-> <<m>>, ret |-> Unit] : o \in {"push", "force"}, m \in Messages}
  \cup {[op |-> o, arg |-> <<>>, ret |-> Unit] : o \in {"pull_control", "pull_status"}}

PullOps == {"pull_control", "pull_status"}

\* The channel a single-channel call addresses and the bytes it carries.
CallChannel(cl) ==
  IF cl.op \in {"push", "force"} THEN MessageInto(cl.arg[1])[1] ELSE cl.arg[1]

CallBytes(cl) == MessageInto(cl.arg[1])[2]

\* A Mutex::lock that never blocks.
MutexAvailable_always(l) == TRUE

\* Mutex::lock returns only when no thread holds the mutex.
MutexAvailable(l) == l = 0

Step(t, pc, fields) ==
  th' = [th EXCEPT ![t] = [fields EXCEPT !.pc = pc]]

\* A thread calls a method and reaches Mutex::lock.
TCall(t) ==
  /\ inst.pc = "live"
  /\ th[t].pc = "idle"
  /\ tcalls < MaxThreadCalls
  /\ tcalls' = tcalls + 1
  /\ Step(t, "lock", th[t])
  /\ UNCHANGED <<shm, lock>>
  /\ UNCHANGED notThr

\* transaction: the lock is acquired and the closure is about to run; the
\* call is one of calls.
TLockFrom(t, calls) ==
  \E cl \in calls :
    /\ th[t].pc = "lock"
    /\ MutexAvailable(lock)
    /\ lock' = t
    /\ Step(t, "body", [IdleThread EXCEPT !.call = cl, !.scan = 1, !.snap = shm])
    /\ UNCHANGED <<shm, tcalls>>
    /\ UNCHANGED notThr

TLock(t) == TLockFrom(t, ThreadCalls)

\* The closures of is_empty and peek.
TRead(t) ==
  /\ th[t].pc = "body"
  /\ th[t].call.op \in {"is_empty", "peek"}
  /\ LET c == CallChannel(th[t].call)
         r == IF th[t].call.op = "is_empty" THEN app_is_empty(shm, c) ELSE app_peek(shm, c)
     IN Step(t, "unlock", [th[t] EXCEPT !.sent = <<r.ret>>])
  /\ UNCHANGED <<shm, lock, tcalls>>
  /\ UNCHANGED notThr

\* The closure of clear.
TClear(t) ==
  /\ th[t].pc = "body"
  /\ th[t].call.op = "clear"
  /\ LET r == app_clear(shm, CallChannel(th[t].call))
     IN /\ shm' = r.data
        /\ Step(t, "unlock", [th[t] EXCEPT !.sent = <<r.ret>>])
  /\ UNCHANGED <<lock, tcalls>>
  /\ UNCHANGED notThr

\* The closure of force.
TForce(t) ==
  /\ th[t].pc = "body"
  /\ th[t].call.op = "force"
  /\ LET r == force(shm, th[t].call.arg[1])
     IN /\ shm' = r.data
        /\ Step(t, "unlock", [th[t] EXCEPT !.sent = <<r.ret>>])
  /\ UNCHANGED <<lock, tcalls>>
  /\ UNCHANGED notThr

\* receive, first half of pop: let v = self.peek()
TPopPeek(t) ==
  /\ th[t].pc = "body"
  /\ th[t].call.op = "receive"
  /\ Step(t, "body2", [th[t] EXCEPT !.tmp = peek(get_channel(shm, CallChannel(th[t].call)))])
  /\ UNCHANGED <<shm, lock, tcalls>>
  /\ UNCHANGED notThr

\* receive, second half of pop: self.clear(); v
TPopClear(t) ==
  /\ th[t].pc = "body2"
  /\ th[t].call.op = "receive"
  /\ LET c == CallChannel(th[t].call)
     IN shm' = get_channel_mut(shm, c, clear(get_channel(shm, c)))
  /\ Step(t, "unlock", [th[t] EXCEPT !.sent = <<th[t].tmp>>])
  /\ UNCHANGED <<lock, tcalls>>
  /\ UNCHANGED notThr

\* push, the occupancy test of MSG_CHANNEL::push.
TPushCheck(t) ==
  /\ th[t].pc = "body"
  /\ th[t].call.op = "push"
  /\ IF ~is_empty(get_channel(shm, CallChannel(th[t].call)))
     THEN Step(t, "unlock", [th[t] EXCEPT !.sent = <<NotReady(CallBytes(th[t].call))>>])
     ELSE Step(t, "body2", th[t])
  /\ UNCHANGED <<shm, lock, tcalls>>
  /\ UNCHANGED notThr

\* push, the force_push of the accepting branch.
TPushWrite(t) ==
  /\ th[t].pc = "body2"
  /\ th[t].call.op = "push"
  /\ LET c == CallChannel(th[t].call)
     IN shm' = get_channel_mut(shm, c, force_push(get_channel(shm, c), CallBytes(th[t].call)))
  /\ Step(t, "unlock", [th[t] EXCEPT !.sent = <<Ready>>])
  /\ UNCHANGED <<lock, tcalls>>
  /\ UNCHANGED notThr

\* One iteration of the loop of pull_control / pull_status.
TPullScan(t) ==
  /\ th[t].pc = "body"
  /\ th[t].call.op \in PullOps
  /\ LET ids == IF th[t].call.op = "pull_control" THEN ControlMsgChannel
                ELSE StatusMsgChannel
         id == ids[th[t].scan]
         r == pop(get_channel(shm, id))
     IN /\ shm' = get_channel_mut(shm, id, r.buf)
        /\ IF r.ret # None
           THEN Step(t, "after_loop", [th[t] EXCEPT !.sent = <<Some(<<id, r.ret[2]>>)>>])
           ELSE IF th[t].scan = Len(ids)
                THEN Step(t, "after_loop", th[t])
                ELSE Step(t, "body", [th[t] EXCEPT !.scan = @ + 1])
  /\ UNCHANGED <<lock, tcalls>>
  /\ UNCHANGED notThr

\* The tx.send(None) after the loop of a pull.
TPullSendNone(t) ==
  /\ th[t].pc = "after_loop"
  /\ Step(t, "unlock", [th[t] EXCEPT !.sent = Append(@, None)])
  /\ UNCHANGED <<shm, lock, tcalls>>
  /\ UNCHANGED notThr

\* The value a call returns: the first value received on rx, mapped back
\* to the caller's message for push.
Returned(cl, sent) ==
  IF cl.op = "push" THEN sink_map(Head(sent), cl.arg[1]) ELSE Head(sent)

\* A return that leaves the mutex held.
TUnlock_keeps(t) ==
  /\ th[t].pc = "unlock"
  /\ lock' = lock
  /\ th' = [th EXCEPT ![t] = IdleThread]
  /\ UNCHANGED <<shm, tcalls>>
  /\ UNCHANGED notThr

\* The guard is dropped and the call returns.
TUnlock(t) ==
  /\ th[t].pc = "unlock"
  /\ lock' = 0
  /\ th' = [th EXCEPT ![t] = IdleThread]
  /\ UNCHANGED <<shm, tcalls>>
  /\ UNCHANGED notThr

NextThreads ==
  \E t \in Threads :
    \/ TCall(t)
    \/ TLock(t)
    \/ TRead(t)
    \/ TClear(t)
    \/ TForce(t)
    \/ TPopPeek(t)
    \/ TPopClear(t)
    \/ TPushCheck(t)
    \/ TPushWrite(t)
    \/ TPullScan(t)
    \/ TPullSendNone(t)
    \/ TUnlock(t)

InitThreads == MbInit /\ SeqInit /\ ThrInit /\ IpcInit /\ LifeInit /\ FileInit

SpecThreads == InitThreads /\ [][NextThreads]_vars

\* ------------------------------------------------------------------------
\* The lifetime of one MmapAppChannel: threads call its methods, and Drop
\* unmaps the region at the end
\* ------------------------------------------------------------------------
\* The calls of the lifetime runs: every method, addressed to the first
\* mailbox of the control group or the last of the status group.
LifetimeChannels == {"ProcessControlRequest", "TrickleUp"}

LifetimeCalls ==
  {cl \in ThreadCalls :
     /\ cl.op \notin PullOps => CallChannel(cl) \in LifetimeChannels
     /\ cl.op \in {"push", "force"} => CallBytes(cl) = <<65>>}

\* The steps of thread t once it has called a method: acquiring the mutex,
\* the closure, and the return.
ThreadRuns(t) ==
  \/ TLockFrom(t, LifetimeCalls)
  \/ TRead(t)
  \/ TClear(t)
  \/ TForce(t)
  \/ TPopPeek(t)
  \/ TPopClear(t)
  \/ TPushCheck(t)
  \/ TPushWrite(t)
  \/ TPullScan(t)
  \/ TPullSendNone(t)
  \/ TUnlock(t)

\* The value of the mutex while Drop holds it.
Dropper == NumThreads + 1

\* A drop that does not wait for the borrows of the instance to end.
ExclusiveBorrow_shared(t) == TRUE

\* drop(&mut self): no thread is inside, or on its way into, a method of
\* the instance.
ExclusiveBorrow(t) == \A u \in Threads : t[u].pc = "idle"

\* The owner lets go of the instance and Drop::drop starts.
DropBegin ==
  /\ inst.pc = "live"
  /\ ExclusiveBorrow(th)
  /\ inst' = [inst EXCEPT !.pc = "drop_lock"]
  /\ UNCHANGED thrVars
  /\ UNCHANGED notThrLife

\* self.data.lock().unwrap()
DropLock ==
  /\ inst.pc = "drop_lock"
  /\ MutexAvailable(lock)
  /\ lock' = Dropper
  /\ inst' = [inst EXCEPT !.pc = "unmap"]
  /\ UNCHANGED <<shm, th, tcalls>>
  /\ UNCHANGED notThrLife

\* libc::munmap(p, size_of::<SHARED_MEM>())
DropUnmap ==
  /\ inst.pc = "unmap"
  /\ inst' = [inst EXCEPT !.pc = "drop_unlock", !.region = "unmapped",
                          !.unmaps = @ + 1]
  /\ UNCHANGED thrVars
  /\ UNCHANGED notThrLife

\* The guard is dropped at the end of the statement and drop returns.
DropReturn ==
  /\ inst.pc = "drop_unlock"
  /\ lock' = 0
  /\ inst' = [inst EXCEPT !.pc = "gone"]
  /\ UNCHANGED <<shm, th, tcalls>>
  /\ UNCHANGED notThrLife

DropRuns == DropLock \/ DropUnmap \/ DropReturn

NextLifetime ==
  \/ \E t \in Threads : TCall(t) \/ ThreadRuns(t)
  \/ DropBegin
  \/ DropLock
  \/ DropUnmap
  \/ DropReturn

InitLifetime == MbInit /\ SeqInit /\ ThrInit /\ IpcInit /\ LifeInit /\ FileInit

\* The scheduler keeps running every thread, and a started drop, that can
\* take a step.
SpecLifetime ==
  /\ InitLifetime
  /\ [][NextLifetime]_vars
  /\ \A t \in Threads : WF_vars(ThreadRuns(t))
  /\ WF_vars(DropRuns)

\* ------------------------------------------------------------------------
\* Two processes mapping the same file, each with its own MmapAppChannel
\* (its own Mutex).  One only pushes to a channel, the other only receives
\* from it; ipc is that channel's mailbox.  Each read and each write of a
\* byte of the mapping is a step of its own.
\* ------------------------------------------------------------------------
\* Payloads the pushing process sends.
IpcPayloads == {<<65, 65>>, <<200, 200>>}

\* push: transaction takes the pushing process's own lock.
WCall ==
  \E p \in IpcPayloads :
    /\ wr.pc = "idle"
    /\ wr.calls < MaxIpcCalls
    /\ wr' = [wr EXCEPT !.pc = "check", !.msg = p, !.i = 0, !.locked = TRUE,
                        !.calls = @ + 1]
    /\ UNCHANGED <<ipc, rd, accepted, delivered>>
    /\ UNCHANGED notIpc

\* MSG_CHANNEL::push reads the occupancy byte.
WCheck ==
  /\ wr.pc = "check"
  /\ IF ipc[0] # 0
     THEN wr' = [wr EXCEPT !.pc = "rejected"] /\ accepted' = accepted
     ELSE wr' = [wr EXCEPT !.pc = "mark"] /\ accepted' = Append(accepted, wr.msg)
  /\ UNCHANGED <<ipc, rd, delivered>>
  /\ UNCHANGED notIpc

\* force_push: self.buf[0] = 1
WMark ==
  /\ wr.pc = "mark"
  /\ ipc' = [ipc EXCEPT ![0] = 1]
  /\ wr' = [wr EXCEPT !.pc = "loop"]
  /\ UNCHANGED <<rd, accepted, delivered>>
  /\ UNCHANGED notIpc

\* force_push: one iteration of the copy loop, or its end.
WLoop ==
  /\ wr.pc = "loop"
  /\ IF wr.i >= Min(Len(wr.msg), S - 2)
     THEN /\ wr' = [wr EXCEPT !.pc = "guard"]
          /\ ipc' = ipc
     ELSE LET c == CCharOf(wr.msg[wr.i + 1])
          IN /\ ipc' = [ipc EXCEPT ![wr.i + 1] = c]
             /\ wr' = IF c = 0 THEN [wr EXCEPT !.pc = "guard"]
                      ELSE [wr EXCEPT !.i = @ + 1]
  /\ UNCHANGED <<rd, accepted, delivered>>
  /\ UNCHANGED notIpc

\* force_push: self.buf[MSG_CHANNEL_SIZE - 1] = 0
WGuard ==
  /\ wr.pc = "guard"
  /\ ipc' = [ipc EXCEPT ![S - 1] = 0]
  /\ wr' = [wr EXCEPT !.pc = "accepted"]
  /\ UNCHANGED <<rd, accepted, delivered>>
  /\ UNCHANGED notIpc

\* The guard is dropped and push returns Ready or NotReady.
WReturn ==
  /\ wr.pc \in {"accepted", "rejected"}
  /\ wr' = [IdleWriter EXCEPT !.calls = wr.calls]
  /\ UNCHANGED <<ipc, rd, accepted, delivered>>
  /\ UNCHANGED notIpc

\* receive: transaction takes the receiving process's own lock.
RCall ==
  /\ rd.pc = "idle"
  /\ rd.calls < MaxIpcCalls
  /\ rd' = [rd EXCEPT !.pc = "check", !.locked = TRUE, !.calls = @ + 1]
  /\ UNCHANGED <<ipc, wr, accepted, delivered>>
  /\ UNCHANGED notIpc

\* peek reads the occupancy byte.
RCheck ==
  /\ rd.pc = "check"
  /\ rd' = IF ipc[0] = 0 THEN [rd EXCEPT !.pc = "clear", !.out = None]
           ELSE [rd EXCEPT !.pc = "copy", !.v = <<>>, !.i = 0]
  /\ UNCHANGED <<ipc, wr, accepted, delivered>>
  /\ UNCHANGED notIpc

\* peek copies buf[1..MSG_CHANNEL_SIZE - 2] one byte at a time; after the
\* last byte it terminates the copy and takes the bytes before the first NUL.
RCopy ==
  /\ rd.pc = "copy"
  /\ LET v == Append(rd.v, ipc[rd.i + 1])
     IN IF Len(v) < S - 3
        THEN rd' = [rd EXCEPT !.v = v, !.i = @ + 1]
        ELSE LET f == [j \in 0..(S - 4) |-> IF j = S - 4 THEN 0 ELSE v[j + 1]]
             IN rd' = [rd EXCEPT !.pc = "clear", !.v = <<>>, !.i = 0,
                                 !.out = Some(CStrBytes(f))]
  /\ UNCHANGED <<ipc, wr, accepted, delivered>>
  /\ UNCHANGED notIpc

\* pop: self.clear()
RClear ==
  /\ rd.pc = "clear"
  /\ ipc' = [ipc EXCEPT ![0] = 0]
  /\ rd' = [rd EXCEPT !.pc = "return"]
  /\ UNCHANGED <<wr, accepted, delivered>>
  /\ UNCHANGED notIpc

\* The guard is dropped and receive returns what pop read.
RReturn ==
  /\ rd.pc = "return"
  /\ delivered' = IF rd.out = None THEN delivered ELSE Append(delivered, rd.out[2])
  /\ rd' = [IdleReader EXCEPT !.calls = rd.calls]
  /\ UNCHANGED <<ipc, wr, accepted>>
  /\ UNCHANGED notIpc

NextIpc ==
  \/ WCall
  \/ WCheck
  \/ WMark
  \/ WLoop
  \/ WGuard
  \/ WReturn
  \/ RCall
  \/ RCheck
  \/ RCopy
  \/ RClear
  \/ RReturn

InitIpc == MbInit /\ SeqInit /\ ThrInit /\ IpcInit /\ LifeInit /\ FileInit

SpecIpc == InitIpc /\ [][NextIpc]_vars

\* ------------------------------------------------------------------------
\* The backing file of the mapped backend: processes construct an
\* MmapAppChannel over one path step by step (open, size test, zero-fill,
\* map), push and receive through it, and drop it.
\* ------------------------------------------------------------------------
\* OpenOptions::new().write(true).read(true).create(true).open(path): an
\* absent file is created empty, an existing one is left as it is.
AOpen(p) ==
  /\ att[p].pc = "none"
  /\ nnew < MaxAttach
  /\ nnew' = nnew + 1
  /\ att' = [att EXCEPT ![p] = [NoInstance EXCEPT !.pc = "opened", !.gen = nnew + 1]]
  /\ UNCHANGED <<file, stored, clean, fops>>
  /\ UNCHANGED notFile

\* f.metadata() and the size test.
AStat(p) ==
  /\ att[p].pc = "opened"
  /\ att' = [att EXCEPT ![p].pc = "sized", ![p].small = NeedsFill(Len(file))]
  /\ UNCHANGED <<file, stored, clean, nnew, fops>>
  /\ UNCHANGED notFile

\* The write_all of the zero bytes, taken when the size test said so.
AFill(p) ==
  /\ att[p].pc = "sized"
  /\ att[p].small
  /\ file' = ZeroFill(file)
  /\ clean' = TRUE
  /\ att' = [att EXCEPT ![p].pc = "filled"]
  /\ UNCHANGED <<stored, nnew, fops>>
  /\ UNCHANGED notFile

\* libc::mmap of the file and Ok(Self { .. }).
AMap(p) ==
  /\ \/ att[p].pc = "filled"
     \/ att[p].pc = "sized" /\ ~att[p].small
  /\ att' = [att EXCEPT ![p].pc = "ready"]
  /\ UNCHANGED <<file, stored, clean, nnew, fops>>
  /\ UNCHANGED notFile

\* push_unchecked through the instance of p.
APush(p) ==
  \E c \in FileChannels, v \in TransportPayloads :
    LET r == push_unchecked(MappedView(file), c, v)
    IN /\ att[p].pc = "ready"
       /\ fops < MaxFileOps
       /\ fops' = fops + 1
       /\ file' = MappedStore(file, r.data)
       /\ stored' = IF r.ret = Ready
                    THEN [stored EXCEPT ![c] = [msg |-> peek(get_channel(r.data, c)),
                                                gen |-> att[p].gen]]
                    ELSE stored
       /\ clean' = FALSE
       /\ att' = [att EXCEPT ![p].last =
                    [op |-> "push_unchecked", arg |-> <<c, v>>, ret |-> r.ret,
                     from |-> att[p].gen]]
       /\ UNCHANGED nnew
       /\ UNCHANGED notFile

\* receive through the instance of p.
AReceive(p) ==
  \E c \in FileChannels :
    LET r == receive(MappedView(file), c)
    IN /\ att[p].pc = "ready"
       /\ fops < MaxFileOps
       /\ fops' = fops + 1
       /\ file' = MappedStore(file, r.data)
       /\ stored' = [stored EXCEPT ![c] = NoStored]
       /\ clean' = FALSE
       /\ att' = [att EXCEPT ![p].last =
                    [op |-> "receive", arg |-> <<c>>, ret |-> r.ret,
                     from |-> stored[c].gen]]
       /\ UNCHANGED nnew
       /\ UNCHANGED notFile

\* The instance of p is dropped: munmap, the file stays as it is.
ADrop(p) ==
  /\ att[p].pc = "ready"
  /\ att' = [att EXCEPT ![p] = [NoInstance EXCEPT !.gen = att[p].gen]]
  /\ UNCHANGED <<file, stored, clean, nnew, fops>>
  /\ UNCHANGED notFile

FileSteps(p) ==
  \/ AOpen(p)
  \/ AStat(p)
  \/ AFill(p)
  \/ AMap(p)
  \/ APush(p)
  \/ AReceive(p)
  \/ ADrop(p)

\* One process at a time: instances over the path are constructed, used and
\* dropped one after the other.
NextFile == FileSteps(1)

InitFile ==
  /\ MbInit /\ SeqInit /\ ThrInit /\ IpcInit /\ LifeInit
  /\ \E f \in {NoFile, ShortFile, UsedFile, LongFile} : FileStartsAs(f)

SpecFile == InitFile /\ [][NextFile]_vars

\* Two processes attach to a path that holds no file, or one too short,
\* their steps interleaved.
NextAttach == \E p \in AttachProcs : FileSteps(p)

InitAttach ==
  /\ MbInit /\ SeqInit /\ ThrInit /\ IpcInit /\ LifeInit
  /\ \E f \in {NoFile, ShortFile} : FileStartsAs(f)

SpecAttach == InitAttach /\ [][NextAttach]_vars

\* ------------------------------------------------------------------------
\* Properties of one MSG_CHANNEL
\* ------------------------------------------------------------------------
\* Effective capacity of a mailbox.
Capacity == S - 4

NulFree(p) == \A i \in 1..Len(p) : p[i] # 0

\* The prefix of p that ends before p's first NUL or at the effective
\* capacity, whichever comes first.
Truncated(p) ==
  LET n == Min(Len(p), Capacity)
      stops == {i \in 1..n : p[i] = 0}
      k == IF stops = {} THEN n
           ELSE (CHOOSE i \in stops : \A j \in stops : i <= j) - 1
  IN SubSeq(p, 1, k)

\* C1: on an empty mailbox, whatever it held earlier, push of a NUL-free
\* payload shorter than the effective capacity is accepted and the pop that
\* follows returns exactly that payload.
C1_PushPopRoundTrip ==
  [][\A p \in Payloads :
       (/\ Len(p) < Capacity
        /\ NulFree(p)
        /\ mbLast = [op |-> "push", arg |-> p, ret |-> Ready]
        /\ mbLast'.op = "pop")
       => mbLast'.ret = Some(p)]_vars

\* C2: after force_push(p) on any mailbox state the mailbox is occupied and
\* peek returns exactly the truncated payload, with no byte of a previous
\* occupant.
C2_ForcePushLastWriterWins ==
  mbLast.op = "force_push"
    => /\ ~is_empty(mb)
       /\ peek(mb) = Some(Truncated(mbLast.arg))

\* C6: pop leaves the mailbox empty from every state, returns nothing on an
\* empty mailbox and returns what peek returned just before on an occupied
\* one.
C6_PopEmpties ==
  [][mbLast'.op = "pop"
       => /\ is_empty(mb')
          /\ is_empty(mb) => mbLast'.ret = None
          /\ ~is_empty(mb) => mbLast'.ret = peek(mb) /\ mbLast'.ret # None]_vars

\* A pop has just consumed a non-empty payload from an occupied mailbox.
C6_Witness ==
  /\ mbLast.op = "pop"
  /\ mbLast.ret # None
  /\ mbLast.ret # Some(<<>>)
  /\ is_empty(mb)


\* C13: on a freshly zero-initialised mailbox, push of a NUL-free payload
\* longer than the effective capacity is accepted, leaves the mailbox
\* occupied, and peek then returns exactly the first S - 4 bytes of the
\* payload; the mailbox is still S bytes, no index outside 0..S-1 written.
C13_OverflowTruncated ==
  [][\A p \in Payloads :
       (/\ mb = DefaultChannel
        /\ NulFree(p)
        /\ Len(p) > Capacity
        /\ mbLast'.op = "push"
        /\ mbLast'.arg = p)
       => /\ mbLast'.ret = Ready
          /\ ~is_empty(mb')
          /\ peek(mb') = Some(SubSeq(p, 1, Capacity))
          /\ DOMAIN mb' = 0..(S - 1)]_vars

\* An over-long NUL-free payload has just been pushed and reads back as its
\* first S - 4 bytes.
C13_Witness ==
  /\ mbLast.op = "push"
  /\ mbLast.ret = Ready
  /\ NulFree(mbLast.arg)
  /\ Len(mbLast.arg) > Capacity
  /\ peek(mb) = Some(SubSeq(mbLast.arg, 1, Capacity))
  /\ Len(peek(mb)[2]) = Capacity

\* C15: starting from the zero-initialised mailbox, byte S - 1 (the guard
\* byte) is zero in every reachable state, whatever sequence of push,
\* force_push, pop, clear, peek and is_empty ran and whatever the length of
\* the payloads.
C15_GuardByteZero == mb[S - 1] = 0

\* A force_push of a payload long enough to fill every index up to S - 2
\* has just run, and the guard byte is zero.
C15_Witness ==
  /\ mbLast.op = "force_push"
  /\ NulFree(mbLast.arg)
  /\ Len(mbLast.arg) >= S - 1
  /\ mb[S - 2] # 0
  /\ mb[S - 1] = 0

\* C16: payload bytes are stored only at indices [1, S - 2) and are
\* NUL-terminated there: no payload byte is ever written at index S - 2 or
\* beyond, for payloads of any length, and an occupied mailbox has a NUL
\* among its indices 1..S-3.
C16_PayloadConfined ==
  /\ \A j \in (S - 2)..(S - 1) : mb[j] = 0
  /\ ~is_empty(mb) => \E i \in 1..(S - 3) : mb[i] = 0

\* ------------------------------------------------------------------------
\* Properties of the AppChannel calls
\* ------------------------------------------------------------------------
PushOps == {"push", "push_unchecked"}

\* The channel a push or push_unchecked call addresses, the bytes it
\* carries, and the value it hands back when rejected.
PushTarget(l) == IF l.op = "push" THEN l.arg[1].channel ELSE l.arg[1]

PushBytes(l) == IF l.op = "push" THEN l.arg[1].payload ELSE l.arg[2]

PushHandedBack(l) == IF l.op = "push" THEN l.arg[1] ELSE l.arg

\* C3: push and push_unchecked on an occupied mailbox return the rejected
\* message unchanged and leave the mailbox as it was: same peek, occupancy
\* byte still nonzero.
C3_RejectedPushLeavesOccupant ==
  [][(/\ ncalls' = ncalls + 1
      /\ last'.op \in PushOps
      /\ memory[PushTarget(last')][0] # 0)
     => /\ last'.ret = NotReady(PushHandedBack(last'))
        /\ peek(memory'[PushTarget(last')]) = peek(memory[PushTarget(last')])
        /\ memory'[PushTarget(last')][0] # 0]_vars

\* A push_unchecked was rejected by an occupant holding other bytes.
C3_Witness ==
  /\ last.op = "push_unchecked"
  /\ last.ret = NotReady(last.arg)
  /\ peek(memory[last.arg[1]]) # None
  /\ peek(memory[last.arg[1]]) # Some(last.arg[2])

\* C4: a push is accepted exactly when its mailbox is empty, and without a
\* force an occupied mailbox changes only by being emptied by receive,
\* clear or a pull: a pending message is never overwritten.
C4_AtMostOnePending ==
  [][ncalls' = ncalls + 1
     => /\ last'.op \in PushOps
           => (last'.ret = Ready <=> memory[PushTarget(last')][0] = 0)
        /\ \A c \in Channels :
             (memory[c][0] # 0 /\ last'.op \notin {"force", "force_unchecked"})
             => \/ memory'[c] = memory[c]
                \/ /\ memory'[c] = [memory[c] EXCEPT ![0] = 0]
                   /\ last'.op \in {"receive", "clear", "pull_control", "pull_status"}]_vars

\* A push was rejected because an earlier message is still pending.
C4_Witness ==
  /\ last.op = "push"
  /\ last.ret = NotReady(last.arg[1])
  /\ memory[last.arg[1].channel][0] # 0
  /\ ncalls >= 2

\* Position in ids of the first occupied mailbox of data, 0 if there is none.
FirstOccupied(data, ids) ==
  LET occ == {k \in 1..Len(ids) : data[ids[k]][0] # 0}
  IN IF occ = {} THEN 0 ELSE CHOOSE k \in occ : \A j \in occ : k <= j

GroupOf(op) == IF op = "pull_control" THEN ControlMsgChannel ELSE StatusMsgChannel

\* C5: a pull returns nothing iff its whole group is empty; otherwise it
\* returns the id and payload of the first occupied channel in group order,
\* empties that mailbox and changes nothing else.
C5_PullFirstOccupied ==
  [][(ncalls' = ncalls + 1 /\ last'.op \in {"pull_control", "pull_status"})
     => LET ids == GroupOf(last'.op)
            k == FirstOccupied(memory, ids)
        IN IF k = 0
           THEN last'.ret = None /\ memory' = memory
           ELSE /\ last'.ret = Some(<<ids[k], peek(memory[ids[k]])[2]>>)
                /\ memory' = [memory EXCEPT ![ids[k]][0] = 0]]_vars

\* A pull returned a channel while a later channel of its group is occupied.
C5_Witness ==
  /\ last.op = "pull_control"
  /\ last.ret # None
  /\ \E i, j \in 1..Len(ControlMsgChannel) :
       /\ i < j
       /\ last.ret[2][1] = ControlMsgChannel[i]
       /\ memory[ControlMsgChannel[i]][0] = 0
       /\ memory[ControlMsgChannel[j]][0] # 0

\* C10: after the same calls, both backends returned the same value and
\* the mapped file holds the same Shared Region as the in-memory backend.
C10_BackendsAgree ==
  /\ last.mret = last.ret
  /\ \A c \in Channels : \A i \in 0..(S - 1) : mapped[c][i] = memory[c][i]

\* Both backends have served a receive that returned a message while
\* another message is still pending.
C10_Witness ==
  /\ last.op = "receive"
  /\ last.mret # None
  /\ \E c \in Channels : mapped[c][0] # 0

\* C14: is_empty and peek are read-only. A call of either leaves every byte
\* of the region as it was, on both backends, and a peek that directly
\* follows a peek of the same channel returns the same value.
C14_QueriesReadOnly ==
  [][last'.op \in {"is_empty", "peek"}
       => /\ memory' = memory
          /\ mapped' = mapped
          /\ (last.op = "peek" /\ last'.op = "peek" /\ last'.arg = last.arg)
               => last'.ret = last.ret]_vars

\* A peek has just returned the payload of an occupied mailbox, which is
\* still occupied.
C14_Witness ==
  /\ last.op = "peek"
  /\ last.ret # None
  /\ ~is_empty(get_channel(memory, last.arg[1]))
  /\ ~is_empty(get_channel(mapped, last.arg[1]))
  /\ peek(get_channel(mapped, last.arg[1])) = last.ret

SingleChannelOps ==
  {"is_empty", "peek", "receive", "clear",
   "push", "push_unchecked", "force", "force_unchecked"}

\* The channel a single-channel call addresses.
TargetOf(l) == IF l.op \in {"push", "force"} THEN l.arg[1].channel ELSE l.arg[1]

\* The mailboxes in which regions d and e differ.
ChangedChannels(d, e) == {c \in Channels : d[c] # e[c]}

\* C19: a call addressed to channel c leaves the other seven mailboxes
\* byte-for-byte unchanged; a pull changes no mailbox outside its group and,
\* inside the group, nothing but the occupancy byte of the one mailbox it
\* consumes. This holds on both backends.
C19_ChannelIsolation ==
  [][ncalls' = ncalls + 1 =>
       /\ last'.op \in SingleChannelOps
            => /\ ChangedChannels(memory, memory') \subseteq {TargetOf(last')}
               /\ ChangedChannels(mapped, mapped') \subseteq {TargetOf(last')}
       /\ last'.op \in {"pull_control", "pull_status"}
            => LET consumed == IF last'.ret = None THEN {}
                               ELSE {last'.ret[2][1]}
                   group == {GroupOf(last'.op)[k] :
                               k \in 1..Len(GroupOf(last'.op))}
               IN /\ consumed \subseteq group
                  /\ ChangedChannels(memory, memory') \subseteq consumed
                  /\ ChangedChannels(mapped, mapped') \subseteq consumed
                  /\ \A c \in consumed, i \in 1..(S - 1) :
                       /\ memory'[c][i] = memory[c][i]
                       /\ mapped'[c][i] = mapped[c][i]]_vars

\* A pull_control has just consumed one mailbox while a mailbox of the
\* other group is still occupied.
C19_Witness ==
  /\ last.op = "pull_control"
  /\ last.ret # None
  /\ is_empty(get_channel(memory, last.ret[2][1]))
  /\ \E c \in Channels \ {"ProcessControlRequest", "GraphicsRequest",
                          "Heartbeat", "TrickleDown"} :
       ~is_empty(get_channel(memory, c))

\* ------------------------------------------------------------------------
\* Properties of concurrent calls on one instance
\* ------------------------------------------------------------------------
InTransaction(t) == th[t].pc \notin {"idle", "lock"}

\* What a call returns and leaves behind when it runs alone on data.
SeqOutcome(cl, data) ==
  CASE cl.op = "is_empty" -> app_is_empty(data, cl.arg[1])
    [] cl.op = "peek" -> app_peek(data, cl.arg[1])
    [] cl.op = "receive" -> receive(data, cl.arg[1])
    [] cl.op = "clear" -> app_clear(data, cl.arg[1])
    [] cl.op = "push" -> app_push(data, cl.arg[1])
    [] cl.op = "force" -> force(data, cl.arg[1])
    [] cl.op = "pull_control" -> pull_control(data)
    [] cl.op = "pull_status" -> pull_status(data)

\* C7: at most one thread is inside a transaction closure, it holds the
\* lock, and each call returns and leaves what it would running alone on
\* the region it found when it took the lock (the calls are serialized in
\* lock order).
C7_TransactionsSerialized ==
  /\ Cardinality({t \in Threads : InTransaction(t)}) <= 1
  /\ \A t \in Threads : InTransaction(t) => lock = t
  /\ \A t \in Threads :
       th[t].pc = "unlock"
       => /\ Returned(th[t].call, th[t].sent) = SeqOutcome(th[t].call, th[t].snap).ret
          /\ shm = SeqOutcome(th[t].call, th[t].snap).data

\* A thread has finished the closure of an accepted push on a region that
\* already held a message, while another thread is blocked on the lock.
C7_Witness ==
  \E t, u \in Threads :
    /\ th[t].pc = "unlock"
    /\ th[t].call.op = "push"
    /\ th[t].sent = <<Ready>>
    /\ \E c \in Channels : th[t].snap[c][0] # 0
    /\ th[u].pc = "lock"

\* C8: while a pull scans, no other thread's write takes effect on the
\* region (it differs from the region at scan start only by occupancy bytes
\* the pull itself cleared in its group), and the pull returns the first
\* occupied channel of the region as it was when the scan started.
C8_PullAtomic ==
  \A t \in Threads :
    (InTransaction(t) /\ th[t].call.op \in PullOps)
    => LET ids == GroupOf(th[t].call.op)
           k == FirstOccupied(th[t].snap, ids)
       IN /\ \A c \in Channels :
               \/ shm[c] = th[t].snap[c]
               \/ /\ \E j \in 1..th[t].scan : ids[j] = c
                  /\ shm[c] = [th[t].snap[c] EXCEPT ![0] = 0]
          /\ th[t].pc = "unlock"
             => Returned(th[t].call, th[t].sent)
                  = IF k = 0 THEN None
                    ELSE Some(<<ids[k], peek(th[t].snap[ids[k]])[2]>>)

\* A pull has skipped an empty channel and returned a later one of its
\* group, while another thread is blocked on the lock.
C8_Witness ==
  \E t, u \in Threads :
    /\ th[t].pc = "unlock"
    /\ th[t].call.op = "pull_status"
    /\ th[t].scan >= 2
    /\ Head(th[t].sent) # None
    /\ th[u].pc = "lock"

\* C17: under a fair scheduler every started call eventually returns, the
\* pull that found an occupied channel and sends a second, unread result
\* included, and so does a started drop; the mutex is free whenever neither
\* a call nor the drop is inside its critical section; and a state with a
\* started call always has a step to take.
C17_EveryCallReturns ==
  /\ \A t \in Threads : (th[t].pc # "idle") ~> (th[t].pc = "idle")
  /\ (inst.pc \notin {"live", "gone"}) ~> (inst.pc = "gone")
  /\ []((/\ \A t \in Threads : ~InTransaction(t)
         /\ inst.pc \notin {"unmap", "drop_unlock"}) => lock = 0)
  /\ []((\E t \in Threads : th[t].pc # "idle") => ENABLED NextLifetime)

\* A pull has found an occupied channel and is about to send its second
\* result, while another thread waits for the mutex.
C17_Witness ==
  \E t, u \in Threads :
    /\ th[t].pc = "after_loop"
    /\ th[t].sent # <<>>
    /\ lock = t
    /\ th[u].pc = "lock"

\* C18: for the mapped backend every access to the region happens inside a
\* transaction whose thread holds the instance's mutex, while the region is
\* still mapped; munmap runs at most once, once when drop has returned, with
\* the mutex held by drop and no transaction in progress; so no transaction
\* touches the region after the unmap.
C18_RegionAccessUnderLock ==
  /\ [](\A t \in Threads :
          InTransaction(t) => lock = t /\ inst.region = "mapped")
  /\ [](/\ inst.unmaps <= 1
        /\ inst.region = "unmapped" <=> inst.unmaps = 1
        /\ inst.pc = "gone" => inst.unmaps = 1
        /\ inst.pc \in {"unmap", "drop_unlock"} => lock = Dropper)
  /\ [][shm' # shm
          => \E t \in Threads :
               lock = t /\ InTransaction(t) /\ inst.region = "mapped"]_vars
  /\ [][inst'.unmaps # inst.unmaps
          => lock = Dropper /\ \A t \in Threads : ~InTransaction(t)]_vars

\* Drop has returned, the region was unmapped once, and transactions had
\* written to the region before.
C18_Witness ==
  /\ inst.pc = "gone"
  /\ inst.unmaps = 1
  /\ lock = 0
  /\ tcalls >= 2
  /\ \E c \in Channels : ~is_empty(get_channel(shm, c))

\* ------------------------------------------------------------------------
\* Properties of the backing file
\* ------------------------------------------------------------------------
\* A step of MmapAppChannel::new by process p.
NewStep(p) ==
  /\ att[p].pc \in {"none", "opened", "sized", "filled"}
  /\ att'[p].pc # att[p].pc

\* A receive through the instance of process p.
ReceiveStep(p) ==
  /\ fops' = fops + 1
  /\ att'[p].last.op = "receive"
  /\ \A q \in AttachProcs \ {p} : att'[q] = att[q]

\* C11: MmapAppChannel::new on a path whose file is at least as large as
\* the region changes no byte of the file and does not change its length,
\* so a receive through any instance over the path, a later one included,
\* returns the message an accepted push left pending in that mailbox.
C11_ReattachPreserves ==
  [][\A p \in AttachProcs :
       /\ (NewStep(p) /\ Len(file) >= SizeOfSharedMem) => file' = file
       /\ (ReceiveStep(p) /\ stored[att'[p].last.arg[1]] # NoStored)
            => att'[p].last.ret = stored[att'[p].last.arg[1]].msg]_vars

\* A receive through a later instance has just returned a non-empty message
\* that an earlier instance over the same path had pushed.
C11_Witness ==
  \E p \in AttachProcs :
    /\ att[p].last.op = "receive"
    /\ att[p].last.ret \notin {None, Some(<<>>)}
    /\ att[p].last.from >= 1
    /\ att[p].last.from < att[p].gen

\* C12: an instance constructed over a path with no file, or with a file
\* shorter than the region, leaves a file of exactly the region's size; as
\* long as nothing was written since the zero-fill, every byte of the file
\* is zero and an instance over the path, the first or a later one, sees
\* all eight mailboxes empty.
C12_FreshFileZero ==
  \A p \in AttachProcs :
    /\ (att[p].pc \in {"filled", "ready"} /\ att[p].small)
         => Len(file) = SizeOfSharedMem
    /\ (att[p].pc = "ready" /\ clean)
         => /\ file = [k \in 1..SizeOfSharedMem |-> 0]
            /\ \A c \in Channels : is_empty(get_channel(MappedView(file), c))

\* A second instance has been constructed over a path that the first one
\* created and zero-filled, with no write in between.
C12_Witness ==
  \E p \in AttachProcs :
    /\ att[p].pc = "ready"
    /\ att[p].gen >= 2
    /\ ~att[p].small
    /\ clean
    /\ fops = 0

\* C20: when the steps of two constructions over one path interleave with
\* each other and with calls through an instance that is already
\* constructed, the zero-fill is never written to a file that already has
\* the region's size and is mapped by an instance, and a message an
\* accepted push left pending stays in the file until it is received.
C20_AttachRaceKeepsMessages ==
  [][/\ \A p \in AttachProcs :
          (att[p].pc = "sized" /\ att'[p].pc = "filled")
            => ~(/\ Len(file) >= SizeOfSharedMem
                 /\ \E q \in AttachProcs : att[q].pc = "ready")
     /\ \A c \in FileChannels :
          stored'[c] # NoStored
            => peek(get_channel(MappedView(file'), c)) = stored'[c].msg]_vars

\* ------------------------------------------------------------------------
\* Properties of two processes sharing the mapping
\* ------------------------------------------------------------------------
\* C9: a pushing and a receiving process coordinate through the occupancy
\* byte alone: the payloads the receives return are, in order, the
\* truncated payloads of the accepted pushes (never a partly written or
\* mixed one), and once both are idle every accepted push has been
\* delivered or is still pending in the mailbox.
C9_OccupancyByteSuffices ==
  /\ Len(delivered) <= Len(accepted)
  /\ \A k \in 1..Len(delivered) : delivered[k] = Truncated(accepted[k])
  /\ (wr.pc = "idle" /\ rd.pc = "idle")
     => Len(accepted) = Len(delivered) + (IF ipc[0] # 0 THEN 1 ELSE 0)

====
